---- MODULE Spec2Model ----
(***************************************************************************)
(* The resilient fetch pipeline of the Google Search MCP HTTP service:     *)
(* GET /search over a Redis primary cache, an in-process LRU fallback      *)
(* cache and the opossum circuit breaker that wraps the upstream call.     *)
(* Two builds of the service are modelled: src/index.ts (Main) and         *)
(* src/unnamed/part_000 (CreateApp, imported by the tests as '../app').    *)
(* Their /search handlers take the same steps; they differ at startup.     *)
(***************************************************************************)
EXTENDS Integers, Sequences, FiniteSets, TLC

\* ---------------------------------------------------------------- bounds
MaxReqs == 2
\* number of /search requests of one run (each request id is served once)
MaxTrials == 3
\* number of /search requests of one run of the breaker scenarios
MaxKeys == 2
\* number of distinct cache keys `search:${JSON.stringify(params)}`
MaxParams == 3
\* number of name=value pairs in one query string
MaxCalls == 3
\* number of upstream calls after which /ready is not asked any more
MaxSites == 2
\* number of sites of one multi_site_search call

MaxFires == 2
\* number of breaker calls made one after the other in the retry scenarios

\* ------------------------------------------------------ program constants
\* One tick of the model clock is the breaker's call timeout (CB_TIMEOUT_MS,
\* 5000 ms by default); the other durations keep the order of the defaults:
\* timeout 5 s < rolling window 10 s < reset timeout 30 s. CACHE_TTL is a
\* number of ticks after which the store drops an entry.
CB_TIMEOUT == 1
rollingCountBuckets == 2
CB_RESET_TIMEOUT == 3
CACHE_TTL == 2
errorThresholdPercentage == 50
LRU_CACHE_SIZE == 2
\* axiosRetry(axios, { retries: 3, ... }): attempts after the first one
retries == 3
\* setTimeout(() => process.exit(1), 10000) of shutdown(): two ticks of 5 s
FORCE_TIMEOUT == 2
\* the rate limit: MAX_REQ requests in a window of WINDOW_MS ticks
WINDOW_MS == 2
MAX_REQ == 1

\* the eviction scenarios: one key more than the LRU holds, and one request
\* more than that
LruKeys == LRU_CACHE_SIZE + 1
LruReqs == LRU_CACHE_SIZE + 2
Largest(S) == CHOOSE m \in S : \A x \in S : x <= m
Reqs == 1..Largest({MaxReqs, MaxTrials, LruReqs})
Keys == 1..Largest({MaxKeys, LruKeys})
\* null / undefined / absent; a record, as every payload and response is
None == [none |-> TRUE]

VARIABLES
  boot,           \* "init" | "up" | "crashed"
  cacheEnabled,   \* let cacheEnabled = true
  redisUp,        \* the Redis connection is usable (commands do not throw)
  redis,          \* the primary store: key -> none | [val, ttl]
  lruCache,       \* the fallback store: <<[key, val], ...>>, most recent first
  searchBreaker,  \* the circuit breaker wrapped around the upstream call
  upstreamCalls,  \* number of times the breaker's action (axios.get) was invoked
  rq,             \* per request: position in the handler and what it saw
  limiter,        \* the rate-limit middleware: where it is mounted, its window
  last,           \* the answer the step just taken gave outside the /search handler
  keyIn,          \* two query strings, as two clients sent them
  keyOut,         \* the cache keys built for them
  mcp,            \* the MCP server's call-tool handler
  call,           \* one breaker call seen from inside: the requests axios makes for it
  proc            \* the process: running, shutting down or exited

\* the state of the /search pipeline
service == <<boot, cacheEnabled, redisUp, redis, lruCache, searchBreaker,
             upstreamCalls, rq>>
\* the state of what surrounds it
aux == <<limiter, last, keyIn, keyOut, mcp, call, proc>>
vars == <<boot, cacheEnabled, redisUp, redis, lruCache, searchBreaker,
          upstreamCalls, rq, limiter, last, keyIn, keyOut, mcp, call,
          proc>>

\* ------------------------------------------------------------- payloads
\* resp.data of the upstream call made on behalf of request r for key k.
Payload(k, r) == [q |-> k, call |-> r]

\* Redis stores strings: JSON.stringify on write, JSON.parse on read.
JsonStringify(p) == [json |-> p]
\* the string is sent as it was read, unparsed
JsonParseSkipped(s) == s
JsonParse(s) == s.json

\* res.json(body) / res.status(500).json({error})
OkResp(body) == [status |-> 200, body |-> body]
ErrResp(msg) == [status |-> 500, body |-> msg]

\* searchBreaker.fallback(() => Promise.reject(new Error('Google Search unavailable')))
\* opossum runs the fallback with the error of every failed, timed-out or
\* rejected call; this one ignores that error and rejects with a fixed one.
Fallback(err) == "Google Search unavailable"

\* ------------------------------------------------------------ cache key
\* A query string is the sequence of name=value pairs the client sent. A
\* JavaScript object is the sequence of its [name, val] entries in insertion
\* order, which is the order JSON.stringify writes them in. A value is a
\* string (type "string", v = <<text>>) or, for a repeated name, an array.
VALID_FILTERS ==
  <<"searchType", "fileType", "siteSearch", "dateRestrict", "safe", "exactTerms",
    "excludeTerms", "sort", "gl", "hl", "num", "start">>
Param(n, t) == [name |-> n, val |-> t]
Str(t) == [type |-> "string", v |-> <<t>>]
IsString(x) == x # None /\ x.type = "string"

Has(o, n) == \E i \in 1..Len(o) : o[i].name = n
Get(o, n) == IF Has(o, n) THEN o[CHOOSE i \in 1..Len(o) : o[i].name = n].val ELSE None
Put(o, n, x) ==
  IF Has(o, n)
    THEN [i \in 1..Len(o) |-> IF o[i].name = n THEN [name |-> n, val |-> x] ELSE o[i]]
    ELSE Append(o, [name |-> n, val |-> x])
\* the entries of o named in `names`, in the order of `names`
Pick(o, names) ==
  LET there == SelectSeq(names, LAMBDA n : Has(o, n))
  IN  [i \in 1..Len(there) |-> [name |-> there[i], val |-> Get(o, there[i])]]

\* req.query: a name sent once is a string, a name sent again becomes an array
RECURSIVE ParseQuery(_)
ParseQuery(qs) ==
  IF qs = << >> THEN << >>
  ELSE LET o == ParseQuery(SubSeq(qs, 1, Len(qs) - 1))
           p == qs[Len(qs)]
       IN  IF Has(o, p.name)
             THEN Put(o, p.name, [type |-> "array", v |-> Get(o, p.name).v \o <<p.val>>])
             ELSE Put(o, p.name, Str(p.val))

\* searchQuerySchema.safeParse(req.query).success: q is a non-empty string
\* and every filter that is there is a string
SchemaAccepts(o) ==
  /\ IsString(Get(o, "q")) /\ Get(o, "q").v # <<"">>
  /\ \A i \in 1..Len(VALID_FILTERS) :
        Has(o, VALID_FILTERS[i]) => IsString(Get(o, VALID_FILTERS[i]))
\* result.data: the keys of the schema that are there; the others are stripped
SchemaData(o) == Pick(o, <<"q">> \o VALID_FILTERS)

\* const params = { key: API_KEY, cx: CSE_ID, q };
\* VALID_FILTERS.forEach(filter => { if (typeof val === 'string') params[filter] = val })
Params(data) ==
  <<[name |-> "key", val |-> Str("API_KEY")], [name |-> "cx", val |-> Str("CSE_ID")],
    [name |-> "q", val |-> Get(data, "q")]>>
  \o Pick(data, SelectSeq(VALID_FILTERS, LAMBDA f : IsString(Get(data, f))))

\* the key is the JSON text of req.query as it was received
CacheKeyAsSent(qs) ==
  IF SchemaAccepts(ParseQuery(qs)) THEN [search |-> JsonStringify(ParseQuery(qs))] ELSE None
\* const cacheKey = `search:${JSON.stringify(params)}` of a request that
\* validateSearchQuery lets through (None: it answers 400, no key is built)
CacheKey(qs) ==
  IF SchemaAccepts(ParseQuery(qs))
    THEN [search |-> JsonStringify(Params(SchemaData(ParseQuery(qs))))]
    ELSE None

\* the query texts of the cache keys 1..MaxKeys of the pipeline: key k is the
\* cache key of the request /search?q=<QText[k]>
QText == <<"a", "b", "c", "d">>
KeyQuery(k) == <<Param("q", QText[k])>>
KeyIndex(c) == CHOOSE k \in Keys : CacheKey(KeyQuery(k)) = c

\* the query strings of the key builder's runs
ParamNames == {"q", "gl", "hl", "utm"}
Texts == {"a", "b"}
Queries ==
  UNION {[1..n -> {Param(n1, t) : n1 \in ParamNames, t \in Texts}] : n \in 0..MaxParams}

\* ---------------------------------------------------------- Redis store
RedisGet(k) == IF redis[k] = None THEN None ELSE redis[k].val
\* the value is written only when the key holds none (SET ... NX)
RedisSetIfAbsent(store, k, s) ==
  IF store[k] = None THEN [store EXCEPT ![k] = [val |-> s, ttl |-> CACHE_TTL]] ELSE store
RedisSet(store, k, s) == [store EXCEPT ![k] = [val |-> s, ttl |-> CACHE_TTL]]
\* store-side expiry: one tick of every remaining TTL
RedisExpire(store) ==
  [k \in Keys |-> IF store[k] = None THEN None
                  ELSE IF store[k].ttl = 1 THEN None
                  ELSE [store[k] EXCEPT !.ttl = @ - 1]]

\* ------------------------------------------------------------ LRU store
\* new LRUCache({ max: LRU_CACHE_SIZE }): no ttl option is given, so the
\* cache itself keeps no time; `age` is the number of ticks since the entry
\* was set (counted up to CACHE_TTL), kept to tell how old a returned entry is.
LruIndex(c, k) ==
  IF \E i \in 1..Len(c) : c[i].key = k
    THEN CHOOSE i \in 1..Len(c) : c[i].key = k
    ELSE 0
LruWithout(c, k) == SelectSeq(c, LAMBDA e : e.key # k)
LruGetVal(c, k) == IF LruIndex(c, k) = 0 THEN None ELSE c[LruIndex(c, k)].val
LruAge(c, k) == IF LruIndex(c, k) = 0 THEN 0 ELSE c[LruIndex(c, k)].age
\* the lifetime lruCache.set gives an entry: no ttl option was given to the
\* constructor and none is passed to set, so it is 0 (the entry never expires)
LruTtl == 0
\* a get leaves the order of the entries as it is
LruPeek(c, k) == c
\* a get of a present key makes it the most recently used
LruTouch(c, k) ==
  IF LruIndex(c, k) = 0 THEN c ELSE <<c[LruIndex(c, k)]>> \o LruWithout(c, k)
\* a set makes the key the most recently used and evicts from the tail
LruSet(c, k, v) ==
  LET d == <<[key |-> k, val |-> v, age |-> 0]>> \o LruWithout(c, k)
  IN  IF Len(d) > LRU_CACHE_SIZE THEN SubSeq(d, 1, LRU_CACHE_SIZE) ELSE d
\* one tick: every entry is one tick older and stays where it is
LruTick(c) ==
  [i \in 1..Len(c) |->
     [c[i] EXCEPT !.age = IF @ < CACHE_TTL THEN @ + 1 ELSE @]]

\* ------------------------------------------------------ circuit breaker
\* new CircuitBreaker(action, { timeout, errorThresholdPercentage, resetTimeout })
\* state: closed | open | halfOpen; pendingClose: the half-open trial has not
\* been taken yet; window: rolling buckets of [fires, failures], newest first;
\* openTicks: age of the reset timer.
EmptyBucket == [fires |-> 0, failures |-> 0]
BreakerInit ==
  [state |-> "closed", pendingClose |-> FALSE,
   window |-> [i \in 1..rollingCountBuckets |-> EmptyBucket], openTicks |-> 0]

RECURSIVE SumWindow(_, _, _)
SumWindow(w, f, i) ==
  IF i > Len(w) THEN 0
  ELSE (IF f = "fires" THEN w[i].fires ELSE w[i].failures) + SumWindow(w, f, i + 1)
Fires(b) == SumWindow(b.window, "fires", 1)
Failures(b) == SumWindow(b.window, "failures", 1)

\* errorRate = stats.failures / stats.fires * 100 > errorThresholdPercentage
RateExceeded(b) == Failures(b) * 100 > errorThresholdPercentage * Fires(b)

BreakerOpen(b) ==
  IF b.state # "open"
    THEN [b EXCEPT !.state = "open", !.pendingClose = FALSE, !.openTicks = 0]
    ELSE b
BreakerClose(b) ==
  IF b.state # "closed"
    THEN [b EXCEPT !.state = "closed", !.pendingClose = FALSE, !.openTicks = 0]
    ELSE b

\* the fire is counted but the half-open trial is never marked as taken
BreakerFireKeepsTrial(b) == [b EXCEPT !.window[1].fires = @ + 1]
\* fire(): counts the fire; an open breaker (or a half-open one whose trial is
\* taken) rejects without running the action, otherwise the action runs.
Admits(b) == b.state = "closed" \/ b.pendingClose
BreakerFire(b) ==
  LET b1 == [b EXCEPT !.window[1].fires = @ + 1]
  IN  IF Admits(b1) THEN [b1 EXCEPT !.pendingClose = FALSE] ELSE b1

\* the action resolved in time: a half-open breaker closes
BreakerSuccess(b) == IF b.state = "halfOpen" THEN BreakerClose(b) ELSE b

\* the failure is counted but the error rate is never looked at
BreakerFailIgnoresRate(b) ==
  LET b1 == [b EXCEPT !.window[1].failures = @ + 1]
  IN  IF b1.state = "halfOpen" THEN BreakerOpen(b1) ELSE b1
\* the action rejected or timed out: counted, and the breaker opens when the
\* error rate exceeds the threshold or when it was the half-open trial
BreakerFail(b) ==
  LET b1 == [b EXCEPT !.window[1].failures = @ + 1]
  IN  IF RateExceeded(b1) \/ b1.state = "halfOpen" THEN BreakerOpen(b1) ELSE b1

\* one tick: the rolling window drops its oldest bucket, and an open breaker
\* whose reset timer runs out becomes half-open with one trial allowed
BreakerTick(b) ==
  LET w == <<EmptyBucket>> \o SubSeq(b.window, 1, rollingCountBuckets - 1)
      b1 == [b EXCEPT !.window = w]
  IN  IF b1.state # "open" THEN b1
      ELSE IF b1.openTicks + 1 >= CB_RESET_TIMEOUT
        THEN [b1 EXCEPT !.state = "halfOpen", !.pendingClose = TRUE, !.openTicks = 0]
        ELSE [b1 EXCEPT !.openTicks = @ + 1]

\* --------------------------------------------------------- rate limiter
\* rateLimit({ windowMs: WINDOW_MS, max: MAX_REQ }) (express-rate-limit, one
\* client). scope: the routes registered behind the middleware: "off" (not
\* mounted), "search" (index.ts: /search, /filters, /tools; /health and /ready
\* are registered before it) or "all" (part_000: it is mounted first).
\* hits: requests counted in the current window (counted up to MAX_REQ + 1);
\* age: ticks since the window began; passed: requests of the window that
\* went on to the /search handler.
RateLimitInit(scope) == [scope |-> scope, hits |-> 0, age |-> 0, passed |-> 0]
\* the middleware is mounted after every route
BehindNothing(scope, route) == FALSE
Behind(scope, route) == scope = "all" \/ (scope = "search" /\ route = "search")
RateLimitHit(l) == [l EXCEPT !.hits = IF @ <= MAX_REQ THEN @ + 1 ELSE @]
\* one tick: when the window has elapsed the counts start again from zero
RateLimitTick(l) ==
  IF l.scope = "off" THEN l
  ELSE IF l.age + 1 >= WINDOW_MS THEN RateLimitInit(l.scope)
  ELSE [l EXCEPT !.age = @ + 1]
\* the request just counted is within the limit
RateLimitAllows(l) == l.hits <= MAX_REQ

\* ------------------------------------------------------------- requests
\* pc: idle | get | fire | set | bgfire | bgset | done
\* path: none | redisHit | lruHit | miss
\* cause: why the breaker call or the cache write of this request failed
\*        none | open | timeout | upstream | redisSet
\* seq: the request arrived when every earlier request had been finished
\* lruRead: the handler has called lruCache.get(cacheKey)
\* late: the upstream call outlived the breaker's timeout: none | flying
\*       (still on its way) | dropped (its response came and was ignored)
\* fires: number of searchBreaker.fire calls the handler has made
IdleReq ==
  [pc |-> "idle", key |-> 0, path |-> "none", hit |-> None, val |-> None,
   cause |-> "none", resp |-> None, age |-> 0, seq |-> FALSE, lruRead |-> FALSE,
   late |-> "none", fires |-> 0]

\* ------------------------------------------------------------- MCP server
\* The call-tool handler of mcp-server.ts, a process of its own. name: the
\* tool asked for; valid: its arguments satisfy the tool's schema (for
\* google_search: q is a non-empty string); site: the site
\* multi_site_search is searching; items: the
\* outcome of each site so far; calls: axios.get calls of this tool call;
\* outcome: how the tool's handler ended; result: what the client is given;
\* raised: some error was raised while the call was handled.
KnownTools == {"google_search", "extract_content", "multi_site_search"}
ToolNames == KnownTools \cup {"no_such_tool"}
McpIdle ==
  [pc |-> "idle", name |-> "none", valid |-> TRUE, site |-> 0, items |-> << >>,
   calls |-> 0,
   outcome |-> None, result |-> None, raised |-> FALSE]
Thrown(msg) == [threw |-> TRUE, message |-> msg, value |-> << >>]
Returned(v) == [threw |-> FALSE, message |-> << >>, value |-> v]
\* the text of the upstream error, with the prefix the tool's catch block adds
ToolError(name) ==
  IF name = "google_search" THEN <<"Google Search API error: ", "upstream message">>
  ELSE <<"Content extraction failed: ", "upstream message">>
\* the error is answered as an ordinary result
CallToolCatchSilent(o) ==
  [content |-> IF o.threw THEN o.message ELSE o.value, isError |-> FALSE]
\* try { return await this.handleX(args) } catch (error) {
\*   return { content: [{ type: 'text', text: `Error: ${errorMessage}` }], isError: true } }
CallToolCatch(o) ==
  IF o.threw THEN [content |-> <<"Error: ">> \o o.message, isError |-> TRUE]
  ELSE [content |-> o.value, isError |-> FALSE]
\* the sites whose axios.get has been called and has not settled: the loop
\* `for (const site of validatedArgs.sites) { ... await axios.get(...) ... }`
\* calls the next site's axios.get when the one before has settled
McpInFlight(m) ==
  IF m.pc = "call" /\ m.name = "multi_site_search" THEN {m.site} ELSE {}
McpDone(m, o, raised) ==
  [m EXCEPT !.pc = "done", !.outcome = o, !.result = CallToolCatch(o),
            !.raised = raised]

\* ------------------------------------------------------------ axios-retry
\* One call of the breaker's action, axios.get(customsearch, { params }), on
\* the axios instance that axiosRetry has patched. pc: idle | flying (a
\* request is out) | backoff (axios-retry waits before the next attempt) |
\* settled (the promise of axios.get has settled, or the breaker rejected
\* the call); requests: HTTP requests sent for this call; age: ticks since
\* fire(), counted up to CB_TIMEOUT; reported: what fire() gave its caller:
\* none | success | failure | timeout | open; after: requests sent for this
\* call after fire() had settled; fires: calls made so far.
CallIdle ==
  [pc |-> "idle", requests |-> 0, age |-> 0, reported |-> "none", after |-> 0,
   fires |-> 0]
\* retryCondition: isNetworkOrIdempotentRequestError (a network error, or a
\* 5xx answer to a GET), while fewer than `retries` retries have been made
RetryWanted(c, retryable) == retryable /\ c.requests < 1 + retries

\* --------------------------------------------------------------- process
\* state: running | closing (shutdown() has run) | exited; closed: the
\* callback of server.close has run; disc: redisClient.disconnect() of the
\* shutdown: none | pending | ok | failed; age: ticks since shutdown() set
\* its timer; code: the exit code (-1 while the process lives).
ProcInit ==
  [state |-> "running", closed |-> FALSE, disc |-> "none", age |-> 0, code |-> -1]
\* shutdown() sets no timer
ForcedTimerNever(p) == FALSE
\* the timer of shutdown() is due
ForcedTimerDue(p) == p.state = "closing" /\ p.age >= FORCE_TIMEOUT
\* one tick: the timer of shutdown() is one tick older (counted up to one
\* tick past FORCE_TIMEOUT)
ProcTick(p) ==
  IF p.state = "closing" /\ p.age <= FORCE_TIMEOUT THEN [p EXCEPT !.age = @ + 1] ELSE p

InitService ==
  /\ boot = "init"
  /\ cacheEnabled = TRUE
  /\ redisUp = FALSE
  /\ redis = [k \in Keys |-> None]
  /\ lruCache = << >>
  /\ searchBreaker = BreakerInit
  /\ upstreamCalls = 0
  /\ rq = [r \in Reqs |-> IdleReq]
  /\ limiter = RateLimitInit("off")
  /\ last = None
  /\ mcp = McpIdle
  /\ call = CallIdle
  /\ proc = ProcInit

Init ==
  /\ InitService
  /\ keyIn = << << >>, << >> >>
  /\ keyOut = <<None, None>>

\* the key builder's runs: the same query string sent by two clients
InitKey ==
  /\ InitService
  /\ \E qs \in Queries : keyIn = <<qs, qs>>
  /\ keyOut = <<None, None>>

\* ------------------------------------------------------- handler pieces
\* `if (cached)` / `if (cachedLRU)`: the upstream payloads are JSON objects,
\* so only an absent entry (null / undefined) is falsy.
Truthy(v) == v # None

\* index.ts: res.status(500).json({ error: err.toString() })
\* part_000: errorHandler -> res.status(500).json({ code, message: err.message })
\* either way the body carries the message of the error and nothing else of it
ErrBody(msg) == [error |-> msg]

\* the answer is held back until the refresh has settled
HitResponseAfterRefresh(cached) == None
\* hit: res.json(JSON.parse(cached)) / res.json(cachedLRU), before the refresh
HitResponse(cached) == OkResp(cached)
\* the error body is sent without res.status(500)
MissFailResponseNoStatus(msg) == OkResp(ErrBody(msg))
\* miss, breaker call rejected: the catch block / errorHandler answers 500
MissFailResponse(msg) == ErrResp(ErrBody(msg))
\* the payload is stored and the request is left without an answer
MissOkResponseMissing(data) == None
\* miss, breaker call resolved and cache written: res.json(response.data)
MissOkResponse(data) == OkResp(data)
\* the failed refresh drops the entry it could not renew
RefreshFailEvicts(store, k) == [store EXCEPT ![k] = None]
\* background refresh rejected: catch { logger.warn(...) } leaves the stores alone
RefreshFailStore(store, k) == store

\* the late response is written to the cache all the same
LateReplyStoreWrites(store, k, data) == RedisSet(store, k, JsonStringify(data))
\* a response that arrives after the breaker's timeout: the promise fire()
\* returned is settled already, the response reaches no continuation
LateReplyStore(store, k, data) == store

\* the upstream is called directly, whatever the breaker says
FireBypassed(b) == TRUE
\* single flight: the upstream call is made only when no other breaker call
\* is pending
FireCoalesced(b) == Admits(b) /\ \A p \in Reqs : rq[p].pc \notin {"fire", "bgfire"}
\* await searchBreaker.fire(params): the upstream call is made when, and only
\* when, the breaker admits it
FireAdmitted(b) == Admits(b)

\* both tiers are written after a miss
MissWritesBoth(enabled) == TRUE
\* miss: `if (cacheEnabled) await redisClient.set(...) else lruCache.set(...)`
MissWritesLru(enabled) == ~enabled

\* only a miss calls the breaker: a hit is answered and nothing is refreshed
StartsCallOnMiss(path) == path = "miss"
\* each way through the handler reaches one searchBreaker.fire(params): the
\* refresh after a Redis hit, the refresh after a LRU hit, the fetch of a miss
StartsCall(path) == TRUE

\* every payload is written under one and the same key
WriteKeyFixed(q) == 1
\* the key a handler writes under: the cacheKey of its closure, the one it
\* looked up and whose params it gave to searchBreaker.fire
WriteKey(q) == q.key

Pending(q) == q.pc \in {"fire", "bgfire"}

\* request r arrives after the requests before it have run to their end
Sequential(r) == \A p \in 1..(r - 1) : rq[p].pc = "done"

\* Keys are interchangeable: the requests name them in order of first use.
FreshKey ==
  LET used == {rq[r].key : r \in Reqs} \ {0}
  IN  IF used = {} THEN 1 ELSE (CHOOSE m \in used : \A x \in used : x <= m) + 1

\* The handler from the end of the Redis lookup up to its next await:
\* `cached` is what redisClient.get gave (None when it gave null, threw, or
\* the primary is disabled). Answers a hit at once and fires the breaker.
Lookup(r, k, cached) ==
  LET lruVal == LruGetVal(lruCache, k)
      path == IF Truthy(cached) THEN "redisHit"
              ELSE IF Truthy(lruVal) THEN "lruHit" ELSE "miss"
      hitv == IF path = "redisHit" THEN JsonParse(cached)
              ELSE IF path = "lruHit" THEN lruVal ELSE None
      fired == StartsCall(path)
      admitted == fired /\ FireAdmitted(searchBreaker)
      err == Fallback("EOPENBREAKER")
  IN  /\ lruCache' = IF Truthy(cached) THEN lruCache ELSE LruTouch(lruCache, k)
      /\ searchBreaker' = IF fired THEN BreakerFire(searchBreaker) ELSE searchBreaker
      /\ upstreamCalls' = IF admitted THEN upstreamCalls + 1 ELSE upstreamCalls
      /\ rq' = [rq EXCEPT ![r] =
           [pc    |-> IF ~admitted THEN "done"
                      ELSE IF path = "miss" THEN "fire" ELSE "bgfire",
            key   |-> k,
            path  |-> path,
            hit   |-> hitv,
            val   |-> None,
            cause |-> IF admitted \/ ~fired THEN "none" ELSE "open",
            resp  |-> IF path # "miss" THEN HitResponse(hitv)
                      ELSE IF admitted THEN None ELSE MissFailResponse(err),
            age   |-> 0,
            seq   |-> IF rq[r].pc = "idle" THEN Sequential(r) ELSE rq[r].seq,
            lruRead |-> ~Truthy(cached),
            late  |-> "none",
            fires |-> rq[r].fires + (IF fired THEN 1 ELSE 0)]]

\* ------------------------------------------------------------- actions
\* main() / createApp(): await redisClient.connect(); on failure the cache is
\* disabled and the client disconnected. redisClient.disconnect() on a client
\* that never connected may reject: index.ts swallows that (.catch(() => {})),
\* part_000 awaits it inside the catch block, so createApp() rejects.
Startup(connected, started) ==
  /\ boot = "init"
  /\ redisUp' = connected
  /\ cacheEnabled' = connected
  /\ boot' = IF started THEN "up" ELSE "crashed"
  /\ UNCHANGED <<redis, lruCache, searchBreaker, upstreamCalls, rq>>

\* index.ts: redisClient.disconnect().catch(() => {})
Main == \E connected \in BOOLEAN : Startup(connected, TRUE)

\* part_000: catch (e) { ...; cacheEnabled = false; await redisClient.disconnect(); }
CreateApp ==
  \E connected \in BOOLEAN, disconnectThrows \in BOOLEAN :
    Startup(connected, connected \/ ~disconnectThrows)

\* The Redis connection is lost after startup. reconnectStrategy returns an
\* Error, so the client never reconnects: every later command throws.
RedisLost ==
  /\ boot = "up" /\ redisUp
  /\ redisUp' = FALSE
  /\ UNCHANGED <<boot, cacheEnabled, redis, lruCache, searchBreaker,
                 upstreamCalls, rq>>

\* GET /search for key k, up to the first await
Search(r, k) ==
  /\ boot = "up" /\ rq[r].pc = "idle"
  /\ IF r = 1 THEN TRUE ELSE rq[r - 1].pc # "idle"
  /\ k <= FreshKey
  /\ IF cacheEnabled
       THEN /\ rq' = [rq EXCEPT ![r] =
                 [@ EXCEPT !.pc = "get", !.key = k, !.seq = Sequential(r)]]
            /\ UNCHANGED <<lruCache, searchBreaker, upstreamCalls>>
       ELSE Lookup(r, k, None)
  /\ UNCHANGED <<boot, cacheEnabled, redisUp, redis>>

\* await redisClient.get(cacheKey) settles: a value, null, or a throw that
\* the inner catch logs; then the handler runs on to its next await
RedisGetReply(r) ==
  /\ rq[r].pc = "get"
  /\ Lookup(r, rq[r].key, IF redisUp THEN RedisGet(rq[r].key) ELSE None)
  /\ UNCHANGED <<boot, cacheEnabled, redisUp, redis>>

\* the breaker call resolves with the upstream response
UpstreamOk(r) ==
  /\ Pending(rq[r])
  /\ LET q == rq[r]
         data == Payload(q.key, r)
     IN  /\ searchBreaker' = BreakerSuccess(searchBreaker)
         /\ IF q.path = "lruHit" \/ (q.path = "miss" /\ MissWritesLru(cacheEnabled))
              THEN lruCache' = LruSet(lruCache, WriteKey(q), data)
              ELSE lruCache' = lruCache
         /\ rq' = [rq EXCEPT ![r] =
              [@ EXCEPT !.val = data, !.age = 0,
                 !.pc = IF q.path = "redisHit" THEN "bgset"
                        ELSE IF q.path = "lruHit" THEN "done"
                        ELSE IF cacheEnabled THEN "set" ELSE "done",
                 !.resp = IF q.path = "miss" /\ ~cacheEnabled
                            THEN MissOkResponse(data) ELSE @]]
  /\ UNCHANGED <<boot, cacheEnabled, redisUp, redis, upstreamCalls>>

\* the breaker call rejects: the upstream answered with an error (cause
\* "upstream") or the breaker's timer ran out first (cause "timeout")
BreakerReject(r, cause) ==
  /\ Pending(rq[r])
  /\ LET q == rq[r]
         err == Fallback(cause)
     IN  /\ searchBreaker' = BreakerFail(searchBreaker)
         /\ rq' = [rq EXCEPT ![r] =
              [@ EXCEPT !.pc = "done", !.cause = cause, !.age = 0,
                 !.late = IF cause = "timeout" THEN "flying" ELSE @,
                 !.resp = IF q.path = "miss" THEN MissFailResponse(err) ELSE @]]
         /\ redis' = IF q.path = "miss" THEN redis ELSE RefreshFailStore(redis, q.key)
  /\ UNCHANGED <<boot, cacheEnabled, redisUp, lruCache, upstreamCalls>>

UpstreamErr(r) == BreakerReject(r, "upstream")

BreakerTimeout(r) ==
  /\ rq[r].age >= CB_TIMEOUT
  /\ BreakerReject(r, "timeout")

\* await redisClient.set(cacheKey, JSON.stringify(data), { EX: CACHE_TTL })
\* settles: written, or a throw (outer catch / errorHandler on the miss path,
\* the refresh's own catch on the hit path)
RedisSetReply(r) ==
  /\ rq[r].pc \in {"set", "bgset"}
  /\ LET q == rq[r]
     IN  IF redisUp
           THEN /\ redis' = RedisSet(redis, WriteKey(q), JsonStringify(q.val))
                /\ rq' = [rq EXCEPT ![r] =
                     [@ EXCEPT !.pc = "done",
                        !.resp = IF q.pc = "set" THEN MissOkResponse(q.val) ELSE @]]
           ELSE /\ redis' = IF q.pc = "set" THEN redis ELSE RefreshFailStore(redis, q.key)
                /\ rq' = [rq EXCEPT ![r] =
                     [@ EXCEPT !.pc = "done", !.cause = "redisSet",
                        !.resp = IF q.pc = "set"
                                   THEN MissFailResponse("Redis command failed") ELSE @]]
  /\ UNCHANGED <<boot, cacheEnabled, redisUp, lruCache, searchBreaker,
                 upstreamCalls>>

\* the clock advances by one tick; a breaker call whose timeout is due must
\* have timed out first
Tick ==
  /\ boot = "up"
  /\ \A r \in Reqs : Pending(rq[r]) => rq[r].age < CB_TIMEOUT
  /\ rq' = [r \in Reqs |-> IF Pending(rq[r]) THEN [rq[r] EXCEPT !.age = @ + 1] ELSE rq[r]]
  /\ searchBreaker' = BreakerTick(searchBreaker)
  /\ redis' = RedisExpire(redis)
  /\ lruCache' = LruTick(lruCache)
  /\ limiter' = RateLimitTick(limiter)
  /\ UNCHANGED <<boot, cacheEnabled, redisUp, upstreamCalls>>

\* The upstream answers a call that the breaker has already given up on:
\* opossum has settled the fire() promise, so nobody is waiting for it.
LateReply(r) ==
  /\ rq[r].late = "flying"
  /\ rq' = [rq EXCEPT ![r].late = "dropped"]
  /\ redis' = LateReplyStore(redis, rq[r].key, Payload(rq[r].key, r))
  /\ UNCHANGED <<boot, cacheEnabled, redisUp, lruCache, searchBreaker,
                 upstreamCalls>>

\* ------------------------------------------------ routes and middleware
\* a step of the pipeline: no route is asked, the middleware does not count
Quiet == last' = None /\ UNCHANGED <<limiter, keyIn, keyOut, mcp, call, proc>>
Answer(route, status, qs) == [route |-> route, status |-> status, query |-> qs]
\* the invalid query is answered like a valid one
InvalidQueryAccepted(qs) == Answer("search", 200, qs)
\* validateSearchQuery: res.status(400).json({ error: 'Invalid query', details })
InvalidQuery(qs) == Answer("search", 400, qs)
Counted(route) ==
  IF Behind(limiter.scope, route) THEN RateLimitHit(limiter) ELSE limiter
\* the middleware answers 429 itself
Limited(route) == ~RateLimitAllows(Counted(route))

\* main() of index.ts, with app.use(rateLimit(...)) after /health and /ready
MainListen ==
  /\ Main
  /\ limiter' = RateLimitInit("search")
  /\ UNCHANGED <<last, keyIn, keyOut, mcp, call, proc>>

\* createApp() of part_000, whose app.use(rateLimit(...)) precedes every route
CreateAppListen ==
  /\ CreateApp
  /\ limiter' = RateLimitInit("all")
  /\ UNCHANGED <<last, keyIn, keyOut, mcp, call, proc>>

\* app.get('/health', (_req, res) => res.sendStatus(200))
Health ==
  /\ boot = "up"
  /\ limiter' = Counted("health")
  /\ last' = Answer("health", IF Limited("health") THEN 429 ELSE 200, << >>)
  /\ UNCHANGED <<service, keyIn, keyOut, mcp, call, proc>>

\* app.get('/ready'): redisClient.ping() when the cache is enabled, then
\* axios.get(customsearch, { q: 'healthcheck' }) called directly
Ready(googleOk) ==
  /\ boot = "up"
  /\ limiter' = Counted("ready")
  /\ IF Limited("ready")
       THEN /\ last' = Answer("ready", 429, << >>)
            /\ UNCHANGED upstreamCalls
       ELSE /\ upstreamCalls < MaxCalls
            /\ upstreamCalls' = upstreamCalls + 1
            /\ last' = Answer("ready",
                         IF (cacheEnabled => redisUp) /\ googleOk THEN 200 ELSE 503,
                         << >>)
  /\ UNCHANGED <<boot, cacheEnabled, redisUp, redis, lruCache, searchBreaker, rq,
                 keyIn, keyOut, mcp, call, proc>>

\* GET /search?<qs>: rateLimit, then validateSearchQuery, then the handler
\* (status 0: the request was passed on to the handler, which answers it)
SearchRoute(r, qs) ==
  /\ boot = "up"
  /\ IF Limited("search")
       THEN /\ limiter' = Counted("search")
            /\ last' = Answer("search", 429, qs)
            /\ UNCHANGED service
       ELSE IF CacheKey(qs) = None
       THEN /\ limiter' = Counted("search")
            /\ last' = InvalidQuery(qs)
            /\ UNCHANGED service
       ELSE /\ Search(r, KeyIndex(CacheKey(qs)))
            /\ limiter' = [Counted("search") EXCEPT !.passed = @ + 1]
            /\ last' = Answer("search", 0, qs)
  /\ UNCHANGED <<keyIn, keyOut, mcp, call, proc>>

\* ------------------------------------------------------------ tool calls
\* server.setRequestHandler(CallToolRequestSchema, ...): an unknown name and
\* arguments the tool's schema rejects throw before any request is sent
McpCall(name, valid) ==
  /\ mcp.pc \in {"idle", "done"}
  /\ mcp' = IF name \notin KnownTools
              THEN McpDone([McpIdle EXCEPT !.name = name, !.valid = valid],
                           Thrown(<<"Unknown tool: ", name>>), TRUE)
            ELSE IF ~valid
              THEN McpDone([McpIdle EXCEPT !.name = name, !.valid = FALSE],
                           Thrown(<<"ZodError">>), TRUE)
            ELSE [McpIdle EXCEPT !.pc = "call", !.name = name, !.site = 1, !.calls = 1]
  /\ last' = None
  /\ UNCHANGED <<service, limiter, keyIn, keyOut, call, proc>>

\* axios.get resolves. google_search and extract_content return the text;
\* multi_site_search pushes the site's items and goes on to the next site
McpUpstreamOk ==
  /\ mcp.pc = "call"
  /\ LET items == Append(mcp.items, "ok")
     IN  mcp' = IF mcp.name # "multi_site_search"
                  THEN McpDone(mcp, Returned(<<"results">>), mcp.raised)
                ELSE IF mcp.site = MaxSites
                  THEN McpDone([mcp EXCEPT !.items = items], Returned(items), mcp.raised)
                ELSE [mcp EXCEPT !.items = items, !.site = @ + 1, !.calls = @ + 1]
  /\ last' = None
  /\ UNCHANGED <<service, limiter, keyIn, keyOut, call, proc>>

\* axios.get rejects. google_search and extract_content rethrow it with their
\* prefix; multi_site_search catches it in its loop and pushes { site, error }
McpUpstreamErr ==
  /\ mcp.pc = "call"
  /\ LET items == Append(mcp.items, "error")
     IN  mcp' = IF mcp.name # "multi_site_search"
                  THEN McpDone(mcp, Thrown(ToolError(mcp.name)), TRUE)
                ELSE IF mcp.site = MaxSites
                  THEN McpDone([mcp EXCEPT !.items = items], Returned(items), TRUE)
                ELSE [mcp EXCEPT !.items = items, !.site = @ + 1, !.calls = @ + 1,
                                 !.raised = TRUE]
  /\ last' = None
  /\ UNCHANGED <<service, limiter, keyIn, keyOut, call, proc>>

\* -------------------------------------------------------------- shutdown
\* process.exit has not been called
Alive == proc.state # "exited"
\* a request is being handled: its response has not been sent
Serving(r) == rq[r].pc # "idle" /\ rq[r].resp = None

\* SIGINT or SIGTERM arrives after main() has registered shutdown:
\* server.close(callback) stops accepting connections, and the timer is set
Signal ==
  /\ boot = "up" /\ proc.state = "running"
  /\ proc' = [proc EXCEPT !.state = "closing", !.age = 0]
  /\ last' = None
  /\ UNCHANGED <<service, limiter, keyIn, keyOut, mcp, call>>

\* the last connection has ended: the callback of server.close runs and calls
\* redisClient.disconnect() (a client that keeps its connection open may put
\* this off without end)
ServerClosed ==
  /\ proc.state = "closing" /\ ~proc.closed
  /\ \A r \in Reqs : ~Serving(r)
  /\ proc' = [proc EXCEPT !.closed = TRUE, !.disc = "pending"]
  /\ last' = None
  /\ UNCHANGED <<service, limiter, keyIn, keyOut, mcp, call>>

\* redisClient.disconnect() settles: .then -> process.exit(0),
\* .catch -> process.exit(1). The client is closed from then on.
DisconnectSettles(ok) ==
  /\ Alive /\ proc.disc = "pending"
  /\ proc' = [proc EXCEPT !.disc = IF ok THEN "ok" ELSE "failed",
                          !.state = "exited", !.code = IF ok THEN 0 ELSE 1]
  /\ redisUp' = FALSE
  /\ last' = None
  /\ UNCHANGED <<boot, cacheEnabled, redis, lruCache, searchBreaker, upstreamCalls,
                 rq, limiter, keyIn, keyOut, mcp, call>>

\* the timer of shutdown() fires: process.exit(1)
ForcedExit ==
  /\ Alive /\ ForcedTimerDue(proc)
  /\ proc' = [proc EXCEPT !.state = "exited", !.code = 1]
  /\ last' = None
  /\ UNCHANGED <<service, limiter, keyIn, keyOut, mcp, call>>

\* the clock advances by one tick while the process lives; a shutdown timer
\* that is due fires first
ProcessTick ==
  /\ Alive /\ ~ForcedTimerDue(proc)
  /\ Tick
  /\ proc' = ProcTick(proc)
  /\ last' = None
  /\ UNCHANGED <<keyIn, keyOut, mcp, call>>

\* ---------------------------------------------------- retries of one call
\* searchBreaker.fire(params) by a caller, the call before it being over
CallFire ==
  /\ call.pc \in {"idle", "settled"} /\ call.fires < MaxFires
  /\ call.pc = "settled" => call.reported # "none"
  /\ searchBreaker' = BreakerFire(searchBreaker)
  /\ IF FireAdmitted(searchBreaker)
       THEN /\ call' = [CallIdle EXCEPT !.pc = "flying", !.requests = 1,
                                        !.fires = call.fires + 1]
            /\ upstreamCalls' = upstreamCalls + 1
       ELSE /\ call' = [CallIdle EXCEPT !.pc = "settled", !.reported = "open",
                                        !.fires = call.fires + 1]
            /\ UNCHANGED upstreamCalls
  /\ last' = None
  /\ UNCHANGED <<boot, cacheEnabled, redisUp, redis, lruCache, rq, limiter,
                 keyIn, keyOut, mcp, proc>>

\* the request that is out is answered 2xx: axios.get resolves; the breaker
\* reports success unless it has reported the call already
AttemptOk ==
  /\ call.pc = "flying"
  /\ call' = [call EXCEPT !.pc = "settled",
                          !.reported = IF @ = "none" THEN "success" ELSE @]
  /\ searchBreaker' = IF call.reported = "none" THEN BreakerSuccess(searchBreaker)
                      ELSE searchBreaker
  /\ last' = None
  /\ UNCHANGED <<boot, cacheEnabled, redisUp, redis, lruCache, upstreamCalls, rq,
                 limiter, keyIn, keyOut, mcp, proc>>

\* the request that is out fails: axios-retry schedules another attempt, or
\* axios.get rejects and the breaker reports the failure unless it has
\* reported the call already
AttemptFails(retryable) ==
  /\ call.pc = "flying"
  /\ IF RetryWanted(call, retryable)
       THEN /\ call' = [call EXCEPT !.pc = "backoff"]
            /\ UNCHANGED searchBreaker
       ELSE /\ call' = [call EXCEPT !.pc = "settled",
                                    !.reported = IF @ = "none" THEN "failure" ELSE @]
            /\ searchBreaker' = IF call.reported = "none" THEN BreakerFail(searchBreaker)
                                ELSE searchBreaker
  /\ last' = None
  /\ UNCHANGED <<boot, cacheEnabled, redisUp, redis, lruCache, upstreamCalls, rq,
                 limiter, keyIn, keyOut, mcp, proc>>

\* retryDelay (exponentialDelay, well below one tick) has passed: the next
\* request is sent
RetryAttempt ==
  /\ call.pc = "backoff"
  /\ call' = [call EXCEPT !.pc = "flying", !.requests = @ + 1,
                          !.after = IF call.reported # "none" THEN @ + 1 ELSE @]
  /\ last' = None
  /\ UNCHANGED <<boot, cacheEnabled, redisUp, redis, lruCache, searchBreaker,
                 upstreamCalls, rq, limiter, keyIn, keyOut, mcp, proc>>

\* breakerOptions.timeout runs out before axios.get has settled
CallTimeout ==
  /\ call.pc \in {"flying", "backoff"} /\ call.reported = "none"
  /\ call.age >= CB_TIMEOUT
  /\ call' = [call EXCEPT !.reported = "timeout"]
  /\ searchBreaker' = BreakerFail(searchBreaker)
  /\ last' = None
  /\ UNCHANGED <<boot, cacheEnabled, redisUp, redis, lruCache, upstreamCalls, rq,
                 limiter, keyIn, keyOut, mcp, proc>>

\* the clock advances by one tick; a timeout that is due is reported first
CallTick ==
  /\ (call.pc \in {"flying", "backoff"} /\ call.reported = "none") => call.age < CB_TIMEOUT
  /\ call' = [call EXCEPT !.age = IF call.pc \in {"flying", "backoff"} /\ @ < CB_TIMEOUT
                                    THEN @ + 1 ELSE @]
  /\ searchBreaker' = BreakerTick(searchBreaker)
  /\ last' = None
  /\ UNCHANGED <<boot, cacheEnabled, redisUp, redis, lruCache, upstreamCalls, rq,
                 limiter, keyIn, keyOut, mcp, proc>>

\* ----------------------------------------------------------- key builder
\* the second client sends two neighbouring parameters the other way round
Reorder(i) ==
  /\ keyOut = <<None, None>>
  /\ i < Len(keyIn[2])
  /\ keyIn' = [keyIn EXCEPT ![2] = [@ EXCEPT ![i] = keyIn[2][i + 1],
                                             ![i + 1] = keyIn[2][i]]]
  /\ UNCHANGED <<service, limiter, last, keyOut, mcp, call, proc>>

\* the second client adds a parameter that is no filter
AddUnrecognized(t) ==
  /\ keyOut = <<None, None>>
  /\ Len(keyIn[2]) < MaxParams
  /\ keyIn' = [keyIn EXCEPT ![2] = Append(@, Param("utm", t))]
  /\ UNCHANGED <<service, limiter, last, keyOut, mcp, call, proc>>

\* both requests reach the handler's `const cacheKey = ...`
BuildKeys ==
  /\ keyOut = <<None, None>>
  /\ keyOut' = <<CacheKey(keyIn[1]), CacheKey(keyIn[2])>>
  /\ UNCHANGED <<service, limiter, last, keyIn, mcp, call, proc>>

Next ==
  \/ Main /\ Quiet
  \/ CreateApp /\ Quiet
  \/ RedisLost /\ Quiet
  \/ \E r \in 1..MaxReqs, k \in Keys : Search(r, k) /\ Quiet
  \/ \E r \in Reqs : RedisGetReply(r) /\ Quiet
  \/ \E r \in Reqs : UpstreamOk(r) /\ Quiet
  \/ \E r \in Reqs : UpstreamErr(r) /\ Quiet
  \/ \E r \in Reqs : BreakerTimeout(r) /\ Quiet
  \/ \E r \in Reqs : RedisSetReply(r) /\ Quiet
  \/ \E r \in Reqs : LateReply(r) /\ Quiet
  \/ Tick /\ last' = None /\ UNCHANGED <<keyIn, keyOut, mcp, call, proc>>

\* The pipeline as the requests see it that the rate limiter lets through
\* (the middleware is left out: it never counts).
Spec == Init /\ [][Next]_vars

\* The breaker scenarios: the same service with one more request, all the
\* requests being for one key.
NextBreaker ==
  \/ Main /\ Quiet
  \/ CreateApp /\ Quiet
  \/ RedisLost /\ Quiet
  \/ \E r \in 1..MaxTrials : Search(r, 1) /\ Quiet
  \/ \E r \in Reqs : RedisGetReply(r) /\ Quiet
  \/ \E r \in Reqs : UpstreamOk(r) /\ Quiet
  \/ \E r \in Reqs : UpstreamErr(r) /\ Quiet
  \/ \E r \in Reqs : BreakerTimeout(r) /\ Quiet
  \/ \E r \in Reqs : RedisSetReply(r) /\ Quiet
  \/ \E r \in Reqs : LateReply(r) /\ Quiet
  \/ Tick /\ last' = None /\ UNCHANGED <<keyIn, keyOut, mcp, call, proc>>

SpecBreaker == Init /\ [][NextBreaker]_vars

\* The service behind its middleware: the routes of both builds, the rate
\* limiter counting, every /search request being for one key or without q,
\* and one more request reaching the handler than one window lets through.
NextLimit ==
  \/ MainListen
  \/ CreateAppListen
  \/ RedisLost /\ Quiet
  \/ Health
  \/ \E r \in 1..(MAX_REQ + 1), qs \in {<< >>, KeyQuery(1)} : SearchRoute(r, qs)
  \/ \E r \in Reqs : RedisGetReply(r) /\ Quiet
  \/ \E r \in Reqs : UpstreamOk(r) /\ Quiet
  \/ \E r \in Reqs : UpstreamErr(r) /\ Quiet
  \/ \E r \in Reqs : BreakerTimeout(r) /\ Quiet
  \/ \E r \in Reqs : RedisSetReply(r) /\ Quiet
  \/ \E r \in Reqs : LateReply(r) /\ Quiet
  \/ Tick /\ last' = None /\ UNCHANGED <<keyIn, keyOut, mcp, call, proc>>

SpecLimit == Init /\ [][NextLimit]_vars

\* The readiness probe beside the pipeline: the requests of the breaker
\* scenarios, all for one key, and GET /ready asked at any moment.
NextReady ==
  \/ Main /\ Quiet
  \/ CreateApp /\ Quiet
  \/ RedisLost /\ Quiet
  \/ \E googleOk \in BOOLEAN : Ready(googleOk)
  \/ \E r \in 1..MaxReqs : Search(r, 1) /\ Quiet
  \/ \E r \in Reqs : RedisGetReply(r) /\ Quiet
  \/ \E r \in Reqs : UpstreamOk(r) /\ Quiet
  \/ \E r \in Reqs : UpstreamErr(r) /\ Quiet
  \/ \E r \in Reqs : BreakerTimeout(r) /\ Quiet
  \/ \E r \in Reqs : RedisSetReply(r) /\ Quiet
  \/ \E r \in Reqs : LateReply(r) /\ Quiet
  \/ Tick /\ last' = None /\ UNCHANGED <<keyIn, keyOut, mcp, call, proc>>

SpecReady == Init /\ [][NextReady]_vars

\* Validation and error reporting: one /search request, with or without q,
\* and the tool calls of the MCP server.
NextTools ==
  \/ MainListen
  \/ CreateAppListen
  \/ \E qs \in {<< >>, <<Param("q", "")>>, KeyQuery(1)} : SearchRoute(1, qs)
  \/ RedisGetReply(1) /\ Quiet
  \/ UpstreamOk(1) /\ Quiet
  \/ UpstreamErr(1) /\ Quiet
  \/ BreakerTimeout(1) /\ Quiet
  \/ RedisSetReply(1) /\ Quiet
  \/ LateReply(1) /\ Quiet
  \/ Tick /\ last' = None /\ UNCHANGED <<keyIn, keyOut, mcp, call, proc>>
  \/ \E name \in ToolNames, valid \in BOOLEAN : McpCall(name, valid)
  \/ McpUpstreamOk
  \/ McpUpstreamErr

SpecTools == Init /\ [][NextTools]_vars

\* The key builder: two query strings, the second reordered and extended.
NextKey ==
  \/ \E i \in 1..MaxParams : Reorder(i)
  \/ \E t \in Texts : AddUnrecognized(t)
  \/ BuildKeys

SpecKey == InitKey /\ [][NextKey]_vars

\* The fallback tier on its own: Redis was unreachable at startup, the
\* requests ask for one key more than the LRU holds, and no time passes.
NextLru ==
  \/ Startup(FALSE, TRUE) /\ Quiet
  \/ \E r \in 1..LruReqs, k \in 1..LruKeys : Search(r, k) /\ Quiet
  \/ \E r \in Reqs : UpstreamOk(r) /\ Quiet
  \/ \E r \in Reqs : UpstreamErr(r) /\ Quiet

SpecLru == Init /\ [][NextLru]_vars

\* The process of index.ts from startup to exit: one /search request while
\* it runs, a request in progress running on while it shuts down, and
\* nothing after process.exit.
NextShutdown ==
  \/ Main /\ Quiet
  \/ Alive /\ RedisLost /\ Quiet
  \/ proc.state = "running" /\ Search(1, 1) /\ Quiet
  \/ Alive /\ RedisGetReply(1) /\ Quiet
  \/ Alive /\ UpstreamOk(1) /\ Quiet
  \/ Alive /\ UpstreamErr(1) /\ Quiet
  \/ Alive /\ BreakerTimeout(1) /\ Quiet
  \/ Alive /\ RedisSetReply(1) /\ Quiet
  \/ Alive /\ LateReply(1) /\ Quiet
  \/ Signal
  \/ ServerClosed
  \/ \E ok \in BOOLEAN : DisconnectSettles(ok)
  \/ ForcedExit
  \/ ProcessTick

\* Timers fire when they are due and time goes on: the breaker's timeout,
\* the shutdown timer and the clock are weakly fair. Nothing else is: the
\* upstream, Redis and the clients' connections may take for ever.
SpecShutdown ==
  /\ Init /\ [][NextShutdown]_vars
  /\ WF_vars(Alive /\ BreakerTimeout(1) /\ Quiet)
  /\ WF_vars(ForcedExit)
  /\ WF_vars(ProcessTick)

\* One breaker call after the other, each seen from inside: the attempts
\* axios-retry makes for it, the breaker's timer, and what fire() reports.
NextRetry ==
  \/ CallFire
  \/ AttemptOk
  \/ \E retryable \in BOOLEAN : AttemptFails(retryable)
  \/ RetryAttempt
  \/ CallTimeout
  \/ CallTick

SpecRetry == Init /\ [][NextRetry]_vars

\* ============================================================== properties
Hits == {"redisHit", "lruHit"}
BreakerCauses == {"open", "timeout", "upstream"}

\* request r leaves the cache lookup in this step (hit answered, breaker fired)
LookupStep(r) == rq[r].pc \in {"idle", "get"} /\ rq'[r].pc \notin {"idle", "get"}
\* the breaker call of request r is reported failed in this step
BreakerFailStep(r) == rq[r].cause = "none" /\ rq'[r].cause \in BreakerCauses
\* the background refresh of request r fails in this step
RefreshFailStep(r) ==
  rq'[r].path \in Hits /\ rq[r].cause = "none" /\ rq'[r].cause # "none"

\* C1: on a cache hit (Redis or LRU) the cached value is the response from the
\* moment the refresh is started: the response is there while the refresh's
\* breaker call is pending, and no later step changes a response already sent.
C1_HitAnsweredBeforeRefresh ==
  /\ [](\A r \in Reqs : rq[r].path \in Hits => rq[r].resp = OkResp(rq[r].hit))
  /\ [][\A r \in Reqs : rq[r].resp # None => rq'[r].resp = rq[r].resp]_vars

C1_Witness ==
  \E r \in Reqs : /\ rq[r].pc = "bgfire" /\ rq[r].path = "redisHit"
                  /\ rq[r].resp = OkResp(rq[r].hit) /\ rq[r].hit # None

\* C2: a step in which a background refresh fails (breaker open, timeout,
\* upstream error or failing Redis SET) leaves the caller's response the
\* cached value and leaves the entry of that key untouched in both tiers.
C2_RefreshFailureSwallowed ==
  [][\A r \in Reqs : RefreshFailStep(r) =>
        /\ rq'[r].resp = OkResp(rq'[r].hit)
        /\ redis'[rq'[r].key] = redis[rq'[r].key]
        /\ LruGetVal(lruCache', rq'[r].key) = LruGetVal(lruCache, rq'[r].key)]_vars

C2_Witness ==
  \E r \in Reqs : /\ rq[r].path = "redisHit" /\ rq[r].pc = "done"
                  /\ rq[r].cause = "upstream"
                  /\ redis[rq[r].key] # None /\ rq[r].resp.status = 200

\* The scenario of C3: request 1 met an empty cache and a healthy primary and
\* was answered with the upstream payload; then request 2 arrived, asking for
\* the same key.
C3_Scenario ==
  /\ cacheEnabled /\ redisUp
  /\ rq[1].pc = "done" /\ rq[1].path = "miss"
  /\ rq[1].resp = OkResp(Payload(rq[1].key, 1))
  /\ rq[2].key = rq[1].key /\ rq[2].seq
  /\ \A r \in Reqs : r > 2 => rq[r].pc = "idle"

\* C3 as stated: the second identical request, answered from the cache,
\* leaves the upstream call count at 1.
C3_NoSecondUpstreamCall ==
  (C3_Scenario /\ rq[2].path = "redisHit") => upstreamCalls = 1

\* C3 amended: when the second identical request reads the entry before it
\* expires, it is answered from the cache with the first request's payload,
\* no upstream call precedes the answer, and the same step starts at most one
\* upstream call, the background refresh (the count goes from 1 to at most 2).
C3_SecondServedFromCache ==
  [][(C3_Scenario /\ rq[2].pc = "get" /\ redis[rq[2].key] # None /\ LookupStep(2)) =>
        /\ rq'[2].path = "redisHit"
        /\ rq'[2].resp = OkResp(Payload(rq[1].key, 1))
        /\ upstreamCalls = 1
        /\ upstreamCalls' <= 2]_vars

C3_Witness ==
  /\ C3_Scenario /\ rq[2].path = "redisHit"
  /\ rq[2].resp = OkResp(Payload(rq[1].key, 1))
  /\ upstreamCalls = 2

\* C4 as stated: the step that ends a miss whose breaker call succeeded writes
\* the payload to the tier cacheEnabled selects (Redis with CACHE_TTL, else
\* the LRU) and answers with that payload.
C4_MissStoresAndReturns ==
  [][\A r \in Reqs :
        (rq[r].path = "miss" /\ rq[r].pc \in {"fire", "set"} /\ rq'[r].pc = "done"
           /\ rq'[r].val # None) =>
        /\ rq'[r].resp = OkResp(rq'[r].val)
        /\ IF cacheEnabled
             THEN redis'[rq[r].key] = [val |-> JsonStringify(rq'[r].val), ttl |-> CACHE_TTL]
             ELSE LruGetVal(lruCache', rq[r].key) = rq'[r].val]_vars

\* C5: a step in which the breaker call of a miss fails (open, timeout or
\* upstream error) answers 500 and writes nothing to Redis or the LRU.
C5_MissFailureIsError ==
  [][\A r \in Reqs : (BreakerFailStep(r) /\ rq'[r].path = "miss") =>
        /\ rq'[r].resp # None /\ rq'[r].resp.status = 500
        /\ redis' = redis
        /\ lruCache' = lruCache]_vars

C5_Witness ==
  \E r \in Reqs : /\ rq[r].path = "miss" /\ rq[r].cause = "timeout"
                  /\ rq[r].pc = "done" /\ rq[r].resp.status = 500

\* C6: a failure that leaves the error rate of the rolling window above the
\* threshold leaves the breaker open; a call fired while it is open fails at
\* once without the upstream being invoked; and the breaker leaves Open only
\* for Half-Open, when the reset timeout has elapsed.
C6_OpenFailsFast ==
  [][/\ \A r \in Reqs :
          (BreakerFailStep(r) /\ rq[r].pc \in {"fire", "bgfire"}
             /\ RateExceeded(searchBreaker')) => searchBreaker'.state = "open"
     /\ \A r \in Reqs :
          (LookupStep(r) /\ searchBreaker.state = "open") =>
             /\ upstreamCalls' = upstreamCalls
             /\ rq'[r].pc = "done" /\ rq'[r].cause = "open"
             /\ rq'[r].path = "miss" => rq'[r].resp.status = 500
     /\ (searchBreaker.state = "open" /\ searchBreaker'.state # "open") =>
             /\ searchBreaker'.state = "halfOpen"
             /\ searchBreaker.openTicks + 1 >= CB_RESET_TIMEOUT]_vars

C6_Witness ==
  /\ searchBreaker.state = "open" /\ RateExceeded(searchBreaker)
  /\ \E r \in Reqs : rq[r].cause = "upstream"
  /\ \E r \in Reqs : rq[r].cause = "open" /\ rq[r].path = "miss" /\ rq[r].resp.status = 500
  /\ upstreamCalls = 1

\* C7: when the reset timeout elapses the open breaker becomes half-open with
\* its trial pending; while half-open at most one call is in flight and any
\* other call fails fast; a trial that succeeds closes the breaker with no
\* failure left in its counters; a trial that fails opens it again with the
\* reset timer restarted.
C7_HalfOpenTrial ==
  /\ [](searchBreaker.state = "halfOpen" =>
          Cardinality({r \in Reqs : Pending(rq[r])})
            = (IF searchBreaker.pendingClose THEN 0 ELSE 1))
  /\ [][/\ (searchBreaker.state = "open" /\ searchBreaker'.state # "open") =>
              /\ searchBreaker'.state = "halfOpen" /\ searchBreaker'.pendingClose
              /\ searchBreaker.openTicks + 1 >= CB_RESET_TIMEOUT
        /\ \A r \in Reqs :
             (LookupStep(r) /\ searchBreaker.state = "halfOpen") =>
                IF searchBreaker.pendingClose
                  THEN /\ upstreamCalls' = upstreamCalls + 1 /\ Pending(rq'[r])
                       /\ searchBreaker'.state = "halfOpen"
                       /\ ~searchBreaker'.pendingClose
                  ELSE /\ upstreamCalls' = upstreamCalls
                       /\ rq'[r].pc = "done" /\ rq'[r].cause = "open"
        /\ \A r \in Reqs :
             (searchBreaker.state = "halfOpen" /\ Pending(rq[r]) /\ ~Pending(rq'[r])) =>
                IF rq'[r].cause = "none"
                  THEN searchBreaker'.state = "closed" /\ Failures(searchBreaker') = 0
                  ELSE /\ searchBreaker'.state = "open"
                       /\ searchBreaker'.openTicks = 0]_vars

C7_Witness ==
  /\ searchBreaker.state = "halfOpen"
  /\ rq[1].cause \in {"upstream", "timeout"}
  /\ Pending(rq[2])
  /\ rq[3].pc = "done" /\ rq[3].cause = "open"

\* C8 as stated: an error answer caused by the open circuit or by the
\* breaker's timeout differs from an error answer caused by an upstream error.
C8_InfraErrorsDistinct ==
  \A r1 \in Reqs, r2 \in Reqs :
    (/\ rq[r1].path = "miss" /\ rq[r1].cause \in {"open", "timeout"}
     /\ rq[r2].path = "miss" /\ rq[r2].cause = "upstream") =>
       rq[r1].resp # rq[r2].resp

\* C9 as stated: no request is answered with an error caused by the cache
\* layer (every 500 comes from the breaker call).
C9_CacheFailureRecovered ==
  \A r \in Reqs :
    (rq[r].resp # None /\ rq[r].resp.status = 500) => rq[r].cause \in BreakerCauses

\* C10 as stated: a failed Redis connection at startup never keeps the
\* service from starting.
C10_StartsWithoutRedis == boot # "crashed"

\* C11 as stated: a hit never returns an entry that was written CACHE_TTL or
\* more ticks ago, whether it comes from Redis or from the LRU.
C11_NoEntryReturnedAfterTtl ==
  [][\A r \in Reqs :
        (LookupStep(r) /\ rq'[r].path \in Hits) =>
           IF rq'[r].path = "redisHit"
             THEN redis[rq'[r].key] # None /\ redis[rq'[r].key].ttl >= 1
             ELSE LruAge(lruCache, rq'[r].key) < CACHE_TTL]_vars

\* C12 as stated: the LRU is read or written only while cacheEnabled is
\* false, Redis is read or written only while cacheEnabled is true.
C12_OnlyAuthoritativeTierTouched ==
  [][/\ \A r \in Reqs : (LookupStep(r) /\ rq'[r].lruRead) => ~cacheEnabled
     /\ (\E k \in Keys : LruGetVal(lruCache', k) # LruGetVal(lruCache, k))
          => ~cacheEnabled
     /\ \A r \in Reqs :
          (rq[r].pc \in {"get", "set", "bgset"} /\ rq'[r].pc # rq[r].pc)
             => cacheEnabled]_vars

\* C12 amended: one tier holds and serves the entries, selected by
\* cacheEnabled. While it is true the LRU is empty and no request is a LRU
\* hit; while it is false Redis is empty and no request reads Redis, writes
\* Redis or is a Redis hit.
C12_OneTierHoldsEntries ==
  /\ cacheEnabled =>
        /\ lruCache = << >>
        /\ \A r \in Reqs : rq[r].path # "lruHit"
  /\ ~cacheEnabled =>
        /\ \A k \in Keys : redis[k] = None
        /\ \A r \in Reqs : rq[r].pc \notin {"get", "set", "bgset"}
                           /\ rq[r].path # "redisHit"

C12_Witness ==
  /\ cacheEnabled /\ lruCache = << >>
  /\ \E r \in Reqs : /\ rq[r].lruRead /\ rq[r].path = "miss" /\ rq[r].pc = "done"
                      /\ redis[rq[r].key] # None

\* C13 as stated: no upstream request is issued while the breaker is open.
C13_NoUpstreamCallWhileOpen ==
  [][upstreamCalls' # upstreamCalls => searchBreaker.state # "open"]_vars

\* a /search request is counted or refused by the middleware in this step
SearchRouteStep ==
  /\ last' # None /\ last'.route = "search"
  /\ last' # last \/ limiter' # limiter \/ rq' # rq
\* C14: no window lets more than MAX_REQ requests through to the /search
\* handler; a /search request that finds MAX_REQ requests counted in its
\* window is answered 429 and touches neither the caches nor the breaker nor
\* any handler; and when WINDOW_MS has elapsed the counts are zero again.
C14_RateLimitEnforced ==
  /\ [](limiter.passed <= MAX_REQ)
  /\ [][/\ (SearchRouteStep /\ limiter.hits >= MAX_REQ) =>
              /\ last'.status = 429
              /\ UNCHANGED service
              /\ limiter'.passed = limiter.passed
        /\ (limiter.scope # "off" /\ limiter'.age # limiter.age) =>
              IF limiter.age + 1 >= WINDOW_MS
                THEN limiter'.hits = 0 /\ limiter'.passed = 0 /\ limiter'.age = 0
                ELSE limiter'.hits = limiter.hits]_vars

C14_Witness ==
  /\ last = Answer("search", 429, KeyQuery(1))
  /\ rq[1].pc # "idle" /\ rq[2].pc # "idle"
  /\ limiter.passed = MAX_REQ /\ limiter.hits = MAX_REQ + 1

\* the background refresh of request p ends well in this step
RefreshOkStep(p) ==
  /\ rq[p].path \in Hits /\ rq[p].pc \in {"bgfire", "bgset"}
  /\ rq'[p].pc = "done" /\ rq'[p].cause = "none"
\* what a get of key k gives while the tier that cacheEnabled selects answers
Stored(k) ==
  IF cacheEnabled
    THEN IF redis[k] = None THEN None ELSE JsonParse(redis[k].val)
    ELSE LruGetVal(lruCache, k)
\* C15: a breaker call that times out is a failure (a miss is answered 500,
\* a refresh is given up), and the step in which its upstream response
\* arrives later writes neither tier and changes no response.
C15_LateResponseDiscarded ==
  [][\A r \in Reqs :
        /\ (Pending(rq[r]) /\ rq'[r].cause = "timeout") =>
              /\ rq'[r].pc = "done" /\ rq'[r].val = None
              /\ rq'[r].path = "miss" => rq'[r].resp.status = 500
        /\ (rq[r].late = "flying" /\ rq'[r].late = "dropped") =>
              /\ redis' = redis /\ lruCache' = lruCache
              /\ \A p \in Reqs : rq'[p].resp = rq[p].resp]_vars

C15_Witness ==
  \E r \in Reqs : /\ rq[r].late = "dropped" /\ rq[r].cause = "timeout"
                  /\ rq[r].path = "miss" /\ rq[r].resp.status = 500
                  /\ redis[rq[r].key] = None /\ redisUp

\* C16: the step that ends a successful background refresh leaves the
\* refreshed value in the tier in use; and a request that looks the key up
\* while that value is stored and the tier answers is given the refreshed
\* value, not the value the refresh replaced.
C16_RefreshedValueServed ==
  [][/\ \A p \in Reqs : RefreshOkStep(p) =>
          IF cacheEnabled
            THEN redis'[rq[p].key] # None
                 /\ JsonParse(redis'[rq[p].key].val) = Payload(rq[p].key, p)
            ELSE LruGetVal(lruCache', rq[p].key) = Payload(rq[p].key, p)
     /\ \A r \in Reqs, p \in Reqs :
          (/\ LookupStep(r) /\ p # r
           /\ rq[p].path \in Hits /\ rq[p].pc = "done" /\ rq[p].cause = "none"
           /\ rq[p].key = rq'[r].key
           /\ Stored(rq[p].key) = Payload(rq[p].key, p)
           /\ cacheEnabled => redisUp) =>
             /\ rq'[r].resp = OkResp(Payload(rq[p].key, p))
             /\ rq'[r].resp # OkResp(rq[p].hit)]_vars

C16_Witness ==
  /\ rq[1].path = "miss" /\ rq[2].path = "redisHit" /\ rq[3].path = "redisHit"
  /\ rq[2].hit = Payload(1, 1) /\ rq[2].pc = "done" /\ rq[2].cause = "none"
  /\ rq[3].seq /\ rq[3].resp = OkResp(Payload(1, 2))

\* two query strings that validation lets through and that give q and every
\* filter the same value
SameRecognized(a, b) ==
  /\ SchemaAccepts(ParseQuery(a)) /\ SchemaAccepts(ParseQuery(b))
  /\ Get(ParseQuery(a), "q") = Get(ParseQuery(b), "q")
  /\ \A i \in 1..Len(VALID_FILTERS) :
        Get(ParseQuery(a), VALID_FILTERS[i]) = Get(ParseQuery(b), VALID_FILTERS[i])
\* C17: two requests with the same q and the same values of the recognized
\* filters get the same cache key, whatever the order of their parameters
\* and whatever unrecognized parameters they carry.
C17_KeyDeterministic ==
  (keyOut # <<None, None>> /\ SameRecognized(keyIn[1], keyIn[2])) =>
     keyOut[1] # None /\ keyOut[1] = keyOut[2]

C17_Witness ==
  /\ keyOut[1] # None /\ keyOut[1] = keyOut[2]
  /\ Len(keyIn[1]) = 2 /\ Len(keyIn[2]) = 3
  /\ keyIn[1][1].name = "q" /\ keyIn[1][2].name = "hl"
  /\ keyIn[2][1].name = "utm" /\ keyIn[2][2].name = "hl" /\ keyIn[2][3].name = "q"

\* the query string has no q, or an empty one
NoQ(qs) == ~Has(ParseQuery(qs), "q") \/ Get(ParseQuery(qs), "q") = Str("")
\* the call-tool handler takes up a call in this step
McpCallStep == mcp.pc \in {"idle", "done"} /\ mcp' # mcp
\* C18: a /search request without a non-empty q that the rate limiter lets
\* through is answered 400 (one over the limit: 429), and a google_search
\* call without one ends with the handler's promise rejected; in both cases
\* no cache is read or written and no upstream call is made.
C18_MissingQueryRejected ==
  [][/\ (last' # None /\ last'.route = "search" /\ NoQ(last'.query)) =>
          /\ last'.status = IF RateLimitAllows(limiter') THEN 400 ELSE 429
          /\ UNCHANGED service
     /\ (McpCallStep /\ mcp'.name = "google_search" /\ ~mcp'.valid) =>
          /\ mcp'.pc = "done" /\ mcp'.outcome.threw /\ mcp'.calls = 0
          /\ UNCHANGED service]_vars

C18_Witness ==
  /\ last = Answer("search", 400, << >>)
  /\ rq[1].pc = "idle" /\ upstreamCalls = 0 /\ \A k \in Keys : redis[k] = None
  /\ mcp.pc = "done" /\ mcp.name = "google_search" /\ ~mcp.valid
  /\ mcp.outcome.threw /\ mcp.calls = 0

\* C19 as stated: GET /health is answered 200 in every state.
C19_HealthAlways200 ==
  (last # None /\ last.route = "health") => last.status = 200

C21_SitesInParallel ==
  (mcp.pc = "call" /\ mcp.name = "multi_site_search" /\ mcp.items = << >>) =>
     McpInFlight(mcp) = 1..MaxSites

\* the requests that missed key k and whose breaker call is pending
MissesInFlight(k) == {r \in Reqs : rq[r].key = k /\ rq[r].pc = "fire"}
\* C22: every request that misses makes its own breaker call, also while
\* other requests that missed the same key are waiting for theirs: the call
\* is counted as a fire and, when the breaker admits it, one more upstream
\* call is issued; and a miss that is answered 200 is answered with the
\* payload of its own call.
C22_EachMissCallsUpstream ==
  /\ [](\A r \in Reqs :
          (rq[r].path = "miss" /\ rq[r].resp # None /\ rq[r].resp.status = 200) =>
             rq[r].resp.body = Payload(rq[r].key, r))
  /\ [](\A k \in Keys : upstreamCalls >= Cardinality(MissesInFlight(k)))
  /\ [][\A r \in Reqs : (LookupStep(r) /\ rq'[r].path = "miss") =>
          /\ Fires(searchBreaker') = Fires(searchBreaker) + 1
          /\ Admits(searchBreaker) =>
                /\ upstreamCalls' = upstreamCalls + 1
                /\ rq'[r].pc = "fire"
                /\ \A p \in Reqs \ {r} : rq'[p] = rq[p]]_vars

C22_Witness ==
  /\ MissesInFlight(1) = 1..MaxReqs
  /\ upstreamCalls = MaxReqs
  /\ \A k \in Keys : redis[k] = None
  /\ lruCache = << >>

\* request r applies its cache write in this step: redisClient.set has
\* settled without error, or lruCache.set has run
CacheWriteStep(r) ==
  \/ rq[r].pc \in {"set", "bgset"} /\ rq'[r].pc = "done" /\ rq'[r].cause = "none"
  \/ /\ Pending(rq[r]) /\ rq'[r].val # None
     /\ rq[r].path = "lruHit" \/ (rq[r].path = "miss" /\ ~cacheEnabled)
\* the breaker call or the cache write of request p is under way
WriteInFlight(p) == rq[p].pc \in {"fire", "bgfire", "set", "bgset"}
\* C23 as stated: when a cache write of a key is applied while another write
\* of the same key is in flight, one of the two being a background refresh,
\* the cache then holds the value just written, and the write carries the
\* lifetime CACHE_TTL.
C23_LastWriteWinsSameTtl ==
  [][\A r \in Reqs, p \in Reqs :
        (/\ CacheWriteStep(r) /\ p # r /\ WriteInFlight(p) /\ rq[p].key = rq[r].key
         /\ rq[r].path \in Hits \/ rq[p].path \in Hits) =>
           IF rq[r].pc \in {"set", "bgset"}
             THEN redis'[rq[r].key] =
                    [val |-> JsonStringify(Payload(rq[r].key, r)), ttl |-> CACHE_TTL]
             ELSE /\ LruGetVal(lruCache', rq[r].key) = Payload(rq[r].key, r)
                  /\ LruTtl = CACHE_TTL]_vars

\* C24 as stated: once fire() has reported a call (as failed, timed out or
\* rejected), no further upstream request is sent for that call.
C24_NoRequestAfterReport ==
  [][(call.reported # "none" /\ call'.fires = call.fires) =>
        call'.requests = call.requests]_vars

\* the keys the LRU holds, most recently used first
LruKeysOf(c) == [i \in 1..Len(c) |-> c[i].key]
\* lruCache.get(k) is called in this step (and k is there) / lruCache.set(k, _)
LruGetStep(r) == LookupStep(r) /\ rq'[r].lruRead /\ LruIndex(lruCache, rq'[r].key) # 0
LruSetStep(r) ==
  /\ Pending(rq[r]) /\ rq'[r].val # None
  /\ rq[r].path = "lruHit" \/ (rq[r].path = "miss" /\ ~cacheEnabled)
\* C25: the LRU never holds more than LRU_CACHE_SIZE entries, nor a key
\* twice. A get of a key that is there and a set of any key make that key the
\* most recently used and leave the order of the others as it was; a set of a
\* key that is not there while the LRU is full drops the entry used longest
\* ago and no other; and no other step changes the order.
C25_LruBoundedEvictsOldest ==
  /\ [](/\ Len(lruCache) <= LRU_CACHE_SIZE
        /\ \A i, j \in 1..Len(lruCache) : lruCache[i].key = lruCache[j].key => i = j)
  /\ [][/\ \A r \in Reqs : LruGetStep(r) =>
             LruKeysOf(lruCache') =
               <<rq'[r].key>> \o LruKeysOf(LruWithout(lruCache, rq'[r].key))
        /\ \A r \in Reqs : LruSetStep(r) =>
             LET k == rq[r].key
                 rest == LruKeysOf(LruWithout(lruCache, k))
             IN  /\ lruCache'[1].key = k /\ lruCache'[1].val = Payload(k, r)
                 /\ LruKeysOf(lruCache') =
                      <<k>> \o (IF LruIndex(lruCache, k) = 0 /\ Len(lruCache) = LRU_CACHE_SIZE
                                  THEN SubSeq(rest, 1, Len(rest) - 1) ELSE rest)
        /\ (\A r \in Reqs : ~LruGetStep(r) /\ ~LruSetStep(r)) =>
             LruKeysOf(lruCache') = LruKeysOf(lruCache)]_vars

\* key 1 was set, then key 2, then key 1 was read by a request whose refresh
\* failed, then key 3 was set: key 2 has gone and key 1 is still there
C25_Witness ==
  /\ rq[1].key = 1 /\ rq[1].path = "miss" /\ rq[1].val # None
  /\ rq[2].key = 2 /\ rq[2].path = "miss" /\ rq[2].val # None
  /\ rq[3].key = 1 /\ rq[3].path = "lruHit" /\ rq[3].cause = "upstream"
  /\ rq[4].key = 3 /\ rq[4].path = "miss" /\ rq[4].val # None
  /\ LruKeysOf(lruCache) = <<3, 1>>

\* C26: while the breaker is open, a request whose key is stored in the tier
\* in use (and that tier answers) is answered 200 with the stored value; its
\* background refresh is rejected at once, no upstream call is made for it,
\* and the entry stays as it is in both tiers.
C26_OpenBreakerHitServed ==
  [][\A r \in Reqs :
        (/\ LookupStep(r) /\ searchBreaker.state = "open"
         /\ Stored(rq'[r].key) # None
         /\ cacheEnabled => redisUp) =>
           /\ rq'[r].path \in Hits
           /\ rq'[r].resp = OkResp(Stored(rq'[r].key))
           /\ rq'[r].pc = "done" /\ rq'[r].cause = "open"
           /\ upstreamCalls' = upstreamCalls
           /\ redis' = redis
           /\ LruGetVal(lruCache', rq'[r].key) = LruGetVal(lruCache, rq'[r].key)]_vars

C26_Witness ==
  /\ searchBreaker.state = "open" /\ cacheEnabled /\ redisUp
  /\ rq[2].path = "redisHit" /\ rq[2].cause = "upstream"
  /\ rq[3].path = "redisHit" /\ rq[3].cause = "open" /\ rq[3].pc = "done"
  /\ rq[3].resp = OkResp(Payload(1, 1))
  /\ redis[1] # None /\ JsonParse(redis[1].val) = Payload(1, 1)
  /\ upstreamCalls = 2

\* v is a payload the upstream returned to a call made with the params of key k
FetchedFor(v, k) ==
  v.q = k /\ \E p \in Reqs : rq[p].key = k /\ rq[p].val = v
\* C27: what either tier stores under a key is a payload the upstream
\* returned to a call made with the parameters of that key, and every 200
\* answer carries a payload fetched with the parameters of its own request.
C27_PayloadMatchesKey ==
  /\ \A k \in Keys : redis[k] # None => FetchedFor(JsonParse(redis[k].val), k)
  /\ \A i \in 1..Len(lruCache) : FetchedFor(lruCache[i].val, lruCache[i].key)
  /\ \A r \in Reqs : (rq[r].resp # None /\ rq[r].resp.status = 200) =>
        FetchedFor(rq[r].resp.body, rq[r].key)

C27_Witness ==
  /\ rq[1].key = 1 /\ rq[1].path = "miss" /\ rq[1].pc = "done"
  /\ rq[2].key = 2 /\ rq[2].path = "miss" /\ rq[2].pc = "done"
  /\ redis[1] # None /\ JsonParse(redis[1].val) = Payload(1, 1)
  /\ redis[2] # None /\ JsonParse(redis[2].val) = Payload(2, 2)
  /\ rq[2].resp = OkResp(Payload(2, 2))

\* the handler of request r has gone past its cache lookup
LookedUp(r) == rq[r].pc \notin {"idle", "get"}
\* C28: a request that has gone past its cache lookup has made exactly one
\* breaker call, and one that has not has made none; the call is made in the
\* step that ends the lookup, where the breaker counts one more fire, at
\* most one more upstream call is issued, and a hit goes on as a refresh, a
\* miss as the fetch the response waits for; no later step of the request
\* makes another.
C28_OneBreakerCallPerRequest ==
  /\ [](\A r \in Reqs : rq[r].fires = IF LookedUp(r) THEN 1 ELSE 0)
  /\ [](upstreamCalls <= Cardinality({r \in Reqs : LookedUp(r)}))
  /\ [][/\ \A r \in Reqs : LookupStep(r) =>
             /\ Fires(searchBreaker') = Fires(searchBreaker) + 1
             /\ upstreamCalls' \in {upstreamCalls, upstreamCalls + 1}
             /\ rq'[r].pc \in (IF rq'[r].path = "miss" THEN {"fire", "done"}
                                ELSE {"bgfire", "done"})
             /\ rq'[r].pc = "done" => rq'[r].cause = "open"
        /\ (\A r \in Reqs : ~LookupStep(r)) =>
             /\ Fires(searchBreaker') <= Fires(searchBreaker)
             /\ upstreamCalls' = upstreamCalls]_vars

\* request 1 missed and stored its payload; Redis was lost; request 2 met the
\* failing get, missed and made its one call
C28_Witness ==
  /\ cacheEnabled /\ ~redisUp /\ redis[1] # None
  /\ rq[1].path = "miss" /\ rq[1].pc = "done" /\ rq[1].fires = 1
  /\ rq[2].key = 1 /\ rq[2].path = "miss" /\ rq[2].pc = "fire" /\ rq[2].fires = 1
  /\ upstreamCalls = 2

\* C29: a request whose handler and refresh have run to their end has one
\* answer: a 200 with a payload (the cached one on a hit, the fetched one on
\* a miss) or, on a miss only, a 500 with an error and no payload; and an
\* answer, once given, is never followed by another.
C29_ExactlyOneResponse ==
  /\ [](\A r \in Reqs : rq[r].pc = "done" =>
          /\ rq[r].resp # None
          /\ \/ rq[r].resp = OkResp(IF rq[r].path = "miss" THEN rq[r].val ELSE rq[r].hit)
                /\ rq[r].resp.body # None
             \/ /\ rq[r].path = "miss" /\ rq[r].resp.status = 500
                /\ \E msg \in {Fallback("any"), "Redis command failed"} :
                      rq[r].resp.body = ErrBody(msg))
  /\ [][\A r \in Reqs : rq[r].resp # None => rq'[r].resp = rq[r].resp]_vars
  /\ [][\A r \in Reqs : (rq[r].resp = None /\ rq'[r].resp # None) =>
          rq'[r].pc \in {"done", "bgfire"}]_vars

C29_Witness ==
  /\ rq[1].path = "miss" /\ rq[1].pc = "done" /\ rq[1].resp = OkResp(Payload(1, 1))
  /\ rq[2].path = "redisHit" /\ rq[2].pc = "done" /\ rq[2].cause = "timeout"
  /\ rq[2].late = "dropped" /\ rq[2].resp = OkResp(Payload(1, 1))

\* C30: once shutdown() has run the process exits in the end; it exits with
\* code 0 only when the callback of server.close has run and
\* redisClient.disconnect() has resolved, and with code 1 otherwise; and it
\* never lives past the moment the forced-shutdown timer is due.
C30_ShutdownExits ==
  /\ [](proc.state = "exited" =>
          /\ proc.code \in {0, 1}
          /\ proc.code = 0 <=> (proc.closed /\ proc.disc = "ok"))
  /\ [](proc.state = "closing" => proc.age <= FORCE_TIMEOUT)
  /\ [](proc.state = "running" => proc.code = -1 /\ ~proc.closed)
  /\ (proc.state = "closing" ~> proc.state = "exited")

\* Redis was unreachable at startup and its client disconnected then; the
\* server has closed, the second disconnect has failed, the exit code is 1
C30_Witness ==
  /\ ~cacheEnabled /\ proc.state = "exited" /\ proc.code = 1
  /\ proc.closed /\ proc.disc = "failed" /\ proc.age < FORCE_TIMEOUT
  /\ rq[1].pc = "done"

====
